---- MODULE Spec2Model ----
(***************************************************************************)
(* A model of JACS, the interactive Java compilation front-end             *)
(* (src/src/jacs.py and src/src/jacs_modules/compilation_options.py).      *)
(*                                                                         *)
(* Strings are TLC strings; paths are POSIX paths.  The file system is a   *)
(* function from the absolute path of each directory to its listing (the   *)
(* sequence of entry names os.listdir returns, in listing order).          *)
(***************************************************************************)
EXTENDS Naturals, Sequences, FiniteSets, TLC

VARIABLES pc, exitStatus, exitCause, opts, optsFile, fs, out

vars == <<pc, exitStatus, exitCause, opts, optsFile, fs, out>>

(***************************************************************************)
(* Bounds of the model.                                                    *)
(***************************************************************************)
\* Number of entries (files and directories) below the root of a scanned tree.
MaxNodes == 3
\* Number of comma-separated tokens typed at the compile-selected prompt.
MaxTokens == 2
\* Number of command-line arguments the tool is started with.
MaxArgs == 4
\* The most components of a path handed to _validate_folder.
MaxComponents == 3

(***************************************************************************)
(* Python string operations used by the program.                           *)
(***************************************************************************)
CharAt(s, i) == SubSeq(s, i, i)

startswith(s, prefix) ==
    /\ Len(s) >= Len(prefix)
    /\ SubSeq(s, 1, Len(prefix)) = prefix

endswith(s, suffix) ==
    /\ Len(s) >= Len(suffix)
    /\ SubSeq(s, Len(s) - Len(suffix) + 1, Len(s)) = suffix

RECURSIVE replace(_, _, _)
\* str.replace(old, new) for a one-character old.
replace(s, old, new) ==
    IF Len(s) = 0 THEN ""
    ELSE (IF CharAt(s, 1) = old THEN new ELSE CharAt(s, 1))
            \o replace(SubSeq(s, 2, Len(s)), old, new)

RECURSIVE SplitFrom(_, _, _, _)
SplitFrom(s, sep, i, cur) ==
    IF i > Len(s) THEN <<cur>>
    ELSE IF CharAt(s, i) = sep
         THEN <<cur>> \o SplitFrom(s, sep, i + 1, "")
         ELSE SplitFrom(s, sep, i + 1, cur \o CharAt(s, i))

\* str.split(sep) for a one-character sep: "" gives [""], "a,," gives ["a","",""].
split(s, sep) == SplitFrom(s, sep, 1, "")

RECURSIVE lstrip(_)
lstrip(s) ==
    IF Len(s) > 0 /\ CharAt(s, 1) = " " THEN lstrip(SubSeq(s, 2, Len(s))) ELSE s

RECURSIVE rstrip(_)
rstrip(s) ==
    IF Len(s) > 0 /\ CharAt(s, Len(s)) = " "
    THEN rstrip(SubSeq(s, 1, Len(s) - 1)) ELSE s

\* str.strip(): the model's only whitespace character is the space.
strip(s) == rstrip(lstrip(s))

RECURSIVE JoinWith(_, _)
\* sep.join(parts)
JoinWith(parts, sep) ==
    IF Len(parts) = 0 THEN ""
    ELSE IF Len(parts) = 1 THEN parts[1]
    ELSE parts[1] \o sep \o JoinWith(Tail(parts), sep)

(***************************************************************************)
(* os.path                                                                 *)
(***************************************************************************)
\* os.sep on the modelled (POSIX) platform.
sep == "/"

\* The process's working directory.
Cwd == "/w"

isabs(p) == startswith(p, sep)

\* os.path.join(a, b): an absolute b discards a.
join(a, b) ==
    IF isabs(b) THEN b
    ELSE IF a = "" \/ endswith(a, sep) THEN a \o b
    ELSE a \o sep \o b

RECURSIVE NormComps(_, _, _, _)
\* The loop of posixpath.normpath over the components of the path.
NormComps(comps, i, new, initial) ==
    IF i > Len(comps) THEN new
    ELSE LET comp == comps[i] IN
         IF comp = "" \/ comp = "." THEN NormComps(comps, i + 1, new, initial)
         ELSE IF \/ comp # ".."
                 \/ (initial = 0 /\ Len(new) = 0)
                 \/ (Len(new) > 0 /\ new[Len(new)] = "..")
              THEN NormComps(comps, i + 1, Append(new, comp), initial)
         ELSE IF Len(new) > 0
              THEN NormComps(comps, i + 1, SubSeq(new, 1, Len(new) - 1), initial)
         ELSE NormComps(comps, i + 1, new, initial)

normpath(path) ==
    IF path = "" THEN "."
    ELSE LET initial == IF ~startswith(path, "/") THEN 0
                        ELSE IF startswith(path, "//") /\ ~startswith(path, "///")
                             THEN 2 ELSE 1
             comps == NormComps(split(path, "/"), 1, <<>>, initial)
             body == JoinWith(comps, "/")
             res == (IF initial = 2 THEN "//" ELSE IF initial = 1 THEN "/" ELSE "")
                        \o body
         IN IF res = "" THEN "." ELSE res

abspath(path) ==
    normpath(IF isabs(path) THEN path ELSE join(Cwd, path))

basename(p) ==
    LET parts == split(p, "/") IN parts[Len(parts)]

(***************************************************************************)
(* The file system.                                                        *)
(***************************************************************************)
isdir(f, p) == p \in DOMAIN f

\* The paths of all entries of all directories.
EntryPaths(f) ==
    UNION {{join(d, f[d][i]) : i \in 1 .. Len(f[d])} : d \in DOMAIN f}

\* os.path.exists
exists(f, p) == p \in DOMAIN f \/ p \in EntryPaths(f)

\* The non-directory entries.
FilePaths(f) == EntryPaths(f) \ DOMAIN f

\* os.remove(file): the entry leaves its directory's listing.
remove(f, file) ==
    [d \in DOMAIN f |->
        IF \E i \in 1 .. Len(f[d]) : join(d, f[d][i]) = file /\ ~isdir(f, file)
        THEN SelectSeq(f[d], LAMBDA n : join(d, n) # file)
        ELSE f[d]]

(***************************************************************************)
(* _posorder_traversal.  A condition is either the lambda the program      *)
(* passes (file.endswith(suffix)) or an arbitrary predicate, given as the  *)
(* set of paths it accepts.                                                *)
(***************************************************************************)
EndsWithCond(suffix) == [kind |-> "endswith", suffix |-> suffix]
InSetCond(S) == [kind |-> "in", set |-> S]

condition(cond, file) ==
    IF cond.kind = "endswith" THEN endswith(file, cond.suffix)
    ELSE file \in cond.set

RECURSIVE TraverseFromFlat(_, _, _, _)
\* A plausible slip: a subfolder is skipped instead of traversed.
TraverseFromFlat(f, folder, cond, i) ==
    IF i > Len(f[folder]) THEN <<>>
    ELSE LET file == join(folder, f[folder][i]) IN
         (IF ~isdir(f, file) /\ condition(cond, file) THEN <<file>> ELSE <<>>)
            \o TraverseFromFlat(f, folder, cond, i + 1)

RECURSIVE TraverseFromSiblingsFirst(_, _, _, _)
\* A plausible slip: the files of a subfolder are appended after the later
\* entries of the folder instead of in place.
TraverseFromSiblingsFirst(f, folder, cond, i) ==
    IF i > Len(f[folder]) THEN <<>>
    ELSE LET file == join(folder, f[folder][i]) IN
         IF isdir(f, file)
         THEN TraverseFromSiblingsFirst(f, folder, cond, i + 1)
                 \o TraverseFromSiblingsFirst(f, file, cond, 1)
         ELSE (IF condition(cond, file) THEN <<file>> ELSE <<>>)
                 \o TraverseFromSiblingsFirst(f, folder, cond, i + 1)

RECURSIVE TraverseFrom(_, _, _, _)
\* The for loop of _posorder_traversal from the i-th entry of the listing on;
\* a directory's files are spliced in before the later entries are looked at.
TraverseFrom(f, folder, cond, i) ==
    IF i > Len(f[folder]) THEN <<>>
    ELSE LET file == join(folder, f[folder][i]) IN
         (IF isdir(f, file) THEN TraverseFrom(f, file, cond, 1)
          ELSE IF condition(cond, file) THEN <<file>>
          ELSE <<>>)
            \o TraverseFrom(f, folder, cond, i + 1)

posorder_traversal(f, folder, cond) == TraverseFrom(f, folder, cond, 1)

(***************************************************************************)
(* Messages printed by the program: the stream, the text and the value     *)
(* formatted into it ("" when there is none).                              *)
(***************************************************************************)
Msg(stream, text, arg) == [s |-> stream, t |-> text, a |-> arg]

(***************************************************************************)
(* CompilationOptions (jacs_modules/compilation_options.py).  An operation *)
(* that may call exit(1) returns [ok, opts, msgs]: ok is FALSE when the    *)
(* process exits inside it, and opts is then the record as it was.         *)
(***************************************************************************)
\* The value of `opts` before the object is constructed.
NoOpts == [none |-> TRUE]

\* The value of `optsFile` when config/compilation_options.json is absent.
NoFile == <<>>

OptionKeys ==
    {"src_folder", "main_class_path", "class_path", "verbose", "encoding", "compiler"}

\* A plausible slip: testing only that the path exists, not that it is a directory.
CheckFolderExistsOnly(f, absolute_path) ==
    [ok |-> exists(f, absolute_path),
     path |-> absolute_path,
     msgs |-> IF ~exists(f, absolute_path)
              THEN <<Msg("stderr", "The folder does not exist!", basename(absolute_path))>>
              ELSE <<>>]

\* The check _validate_folder makes on the absolute path: ok is FALSE when it
\* prints the error and calls exit(1).
CheckFolder(f, absolute_path) ==
    [ok |-> ~(~exists(f, absolute_path) \/ ~isdir(f, absolute_path)),
     path |-> absolute_path,
     msgs |-> IF ~exists(f, absolute_path) \/ ~isdir(f, absolute_path)
              THEN <<Msg("stderr", "The folder does not exist!", basename(absolute_path))>>
              ELSE <<>>]

\* A plausible slip: the path is made absolute but not normalised.
validate_folder_joined(f, folder_path) == CheckFolder(f, join(Cwd, folder_path))

\* _validate_folder
validate_folder(f, folder_path) == CheckFolder(f, abspath(folder_path))

set_verbose(o, verbose) == [o EXCEPT !.verbose = verbose]

set_encoding(o, encoding) == [o EXCEPT !.encoding = encoding]

set_compiler(o, compiler) == [o EXCEPT !.compiler = compiler]

set_main_class_path(o, main_class_path) == [o EXCEPT !.main_class_path = main_class_path]

\* self.src_folder = v, for the outcome v of _validate_folder.
AssignSrcFolder(o, v) ==
    [ok |-> v.ok,
     opts |-> IF v.ok THEN [o EXCEPT !.src_folder = v.path] ELSE o,
     msgs |-> v.msgs]

set_src_folder(f, o, src_folder) == AssignSrcFolder(o, validate_folder(f, src_folder))

\* self.class_path = v, for the outcome v of _validate_folder.
AssignClassPath(o, v) ==
    [ok |-> v.ok,
     opts |-> IF v.ok THEN [o EXCEPT !.class_path = v.path] ELSE o,
     msgs |-> v.msgs]

set_class_path(f, o, class_path) == AssignClassPath(o, validate_folder(f, class_path))

\* The fields __init__ sets before looking at its arguments; the three paths
\* are assigned below.
Defaults ==
    [src_folder |-> "", main_class_path |-> "", class_path |-> "",
     verbose |-> FALSE, encoding |-> "UTF-8", compiler |-> "javac"]

\* An operation that exited inside a setter whose outcome is r.
Exited(r) == [ok |-> FALSE, opts |-> NoOpts, msgs |-> r.msgs]

\* The branch len(args) == 2 after set_src_folder returned r.
InitTwo(r, args) ==
    IF ~r.ok THEN Exited(r)
    ELSE [ok |-> TRUE,
          opts |-> [r.opts EXCEPT !.main_class_path = args[2],
                                  !.class_path = r.opts.src_folder],
          msgs |-> <<>>]

\* The branch len(args) == 3 after set_src_folder returned r.
InitThree(f, r, args) ==
    IF ~r.ok THEN Exited(r)
    ELSE set_class_path(f, [r.opts EXCEPT !.main_class_path = args[2]], args[3])

\* CompilationOptions(*args)
CompilationOptionsInit(f, args) ==
    IF Len(args) = 2 THEN InitTwo(set_src_folder(f, Defaults, args[1]), args)
    ELSE IF Len(args) = 3
         THEN InitThree(f, set_src_folder(f, Defaults, args[1]), args)
    ELSE [ok |-> TRUE, opts |-> Defaults, msgs |-> <<>>]

(***************************************************************************)
(* The persisted file.  json.dump writes the dictionary as a JSON object:  *)
(* its members in insertion order, a str as a JSON string and a bool as    *)
(* the literal true or false; json.load reads it back into a dictionary.   *)
(***************************************************************************)
JsonString(s) == [string |-> s]

JsonBool(b) == [literal |-> IF b THEN "true" ELSE "false"]

\* json.load's value for a member.
PyValue(j) ==
    IF "literal" \in DOMAIN j THEN j.literal = "true" ELSE j.string

\* compilation_options[key] on the loaded dictionary.
Member(object, key) ==
    PyValue(object[CHOOSE i \in 1 .. Len(object) : object[i][1] = key][2])

\* A plausible slip: the source folder written under the key of the class path.
create_compilation_options_file_one_folder(o) ==
    << <<"src_folder", JsonString(o.src_folder)>>,
       <<"main_class_path", JsonString(o.main_class_path)>>,
       <<"class_path", JsonString(o.src_folder)>>,
       <<"verbose", JsonBool(o.verbose)>>,
       <<"encoding", JsonString(o.encoding)>>,
       <<"compiler", JsonString(o.compiler)>> >>

\* The JSON object create_compilation_options_file writes.
create_compilation_options_file(o) ==
    << <<"src_folder", JsonString(o.src_folder)>>,
       <<"main_class_path", JsonString(o.main_class_path)>>,
       <<"class_path", JsonString(o.class_path)>>,
       <<"verbose", JsonBool(o.verbose)>>,
       <<"encoding", JsonString(o.encoding)>>,
       <<"compiler", JsonString(o.compiler)>> >>

check_if_compilation_options_file_exists(file) == file # NoFile

\* A plausible slip: the encoding and the compiler read from each other's key.
LoadRestSwapped(o, dict) ==
    set_compiler(set_encoding(set_verbose(o, Member(dict, "verbose")),
                              Member(dict, "compiler")),
                 Member(dict, "encoding"))

\* The last three setters of load_compilation_options_file.
LoadRest(o, dict) ==
    set_compiler(set_encoding(set_verbose(o, Member(dict, "verbose")),
                              Member(dict, "encoding")),
                 Member(dict, "compiler"))

\* load_compilation_options_file after set_class_path returned r.
LoadAfterClassPath(r, dict) ==
    IF ~r.ok THEN Exited(r)
    ELSE [ok |-> TRUE, opts |-> LoadRest(r.opts, dict), msgs |-> <<>>]

\* load_compilation_options_file after set_src_folder returned r.
LoadAfterSrcFolder(f, r, dict) ==
    IF ~r.ok THEN Exited(r)
    ELSE LoadAfterClassPath(
            set_class_path(f,
                set_main_class_path(r.opts, Member(dict, "main_class_path")),
                Member(dict, "class_path")),
            dict)

\* load_compilation_options_file: json.load, a fresh CompilationOptions() and
\* the six setters in the order of the code.
load_compilation_options_file(f, file) ==
    LoadAfterSrcFolder(f,
        set_src_folder(f, CompilationOptionsInit(f, <<>>).opts, Member(file, "src_folder")),
        file)

(***************************************************************************)
(* External processes.  subprocess.run returns the exit code of the        *)
(* process; the model draws it from ExitCodes.                             *)
(***************************************************************************)
ExitCodes == {0, 1}

\* What every handler leaves in `out`: the operation, the command lines handed
\* to subprocess.run, the messages printed, the prompts shown, whether the
\* persisted file was written, the value returned to the caller, the
\* exception that left the handler uncaught ("none" when it returned), and
\* the input the handler consumed (sys.argv, the line typed, the exit codes
\* of the processes it started), which the actions fill in.
Out(op, cmds, msgs, prompts, wrote) ==
    [op |-> op, cmds |-> cmds, msgs |-> msgs, prompts |-> prompts,
     wrote |-> wrote, ret |-> "None", raised |-> "none", input |-> <<>>]

NoOut == Out("none", <<>>, <<>>, <<>>, FALSE)

\* _compile_file: raised is TRUE when it raises CompilationError.
compile_file(path_to_file, o, returncode) ==
    LET command == <<o.compiler, "-cp", o.class_path, "-encoding", o.encoding>>
                      \o (IF o.verbose THEN <<"-verbose">> ELSE <<>>)
    IN [cmd |-> command \o <<path_to_file>>,
        msgs |-> (IF o.class_path = o.src_folder
                  THEN <<Msg("stdout", "NOTE> the -cp provided was the Source Folder path", "")>>
                  ELSE <<>>)
                 \o (IF returncode # 0
                     THEN <<Msg("stderr", "Error> Could not compile the file", path_to_file),
                            Msg("stderr", "Compilation aborted.", ""),
                            Msg("stderr", "compiler stderr", path_to_file)>>
                     ELSE <<>>),
        raised |-> returncode # 0]

RECURSIVE CompileFromContinuing(_, _, _, _)
\* A plausible slip: the failure is noted but the loop goes on to the next file.
CompileFromContinuing(files, o, codes, i) ==
    IF i > Len(files) THEN [cmds |-> <<>>, msgs |-> <<>>, raised |-> FALSE]
    ELSE LET r == compile_file(files[i], o, codes[i])
             rest == CompileFromContinuing(files, o, codes, i + 1)
         IN [cmds |-> <<r.cmd>> \o rest.cmds,
             msgs |-> <<Msg("stdout", "Compiling file", files[i])>> \o r.msgs
                        \o rest.msgs,
             raised |-> r.raised \/ rest.raised]

RECURSIVE CompileFrom(_, _, _, _)
\* The loop `for file in files_to_compile` inside the try block, from the i-th
\* file on; codes[i] is the exit code of the i-th compiler process.
CompileFrom(files, o, codes, i) ==
    IF i > Len(files) THEN [cmds |-> <<>>, msgs |-> <<>>, raised |-> FALSE]
    ELSE LET r == compile_file(files[i], o, codes[i])
             here == <<Msg("stdout", "Compiling file", files[i])>> \o r.msgs
         IN IF r.raised
            THEN [cmds |-> <<r.cmd>>, msgs |-> here, raised |-> TRUE]
            ELSE LET rest == CompileFrom(files, o, codes, i + 1) IN
                 [cmds |-> <<r.cmd>> \o rest.cmds,
                  msgs |-> here \o rest.msgs,
                  raised |-> rest.raised]

\* The try/except and the closing messages shared by the two batch operations.
CompileBatch(files, o, codes) ==
    LET r == CompileFrom(files, o, codes, 1) IN
    [cmds |-> r.cmds,
     msgs |-> r.msgs \o
              (IF r.raised
               THEN <<Msg("stderr", "Error> Could not compile all files!", "")>>
               ELSE <<Msg("stdout", "Compilation finished!", ""),
                      Msg("stdout", "Total of files compiled", ToString(Len(files)))>>)]

JavaCond == EndsWithCond(".java")

\* A plausible slip: the cleaner given the extension of the sources.
ClassCondSources == EndsWithCond(".java")

ClassCond == EndsWithCond(".class")

compile_all_files(f, o, codes) ==
    LET files_to_compile == posorder_traversal(f, o.src_folder, JavaCond)
        b == CompileBatch(files_to_compile, o, codes)
    IN Out("compile_all", b.cmds,
           <<Msg("stdout", "Files to compile:", "")>>
             \o [i \in 1 .. Len(files_to_compile) |->
                    Msg("stdout", "+", files_to_compile[i])]
             \o b.msgs,
           <<>>, FALSE)

(***************************************************************************)
(* compile_specific_files and the parsing of its prompt.                   *)
(***************************************************************************)
\* The characters of the model for which str.isdigit() is true: the decimal
\* digits and SUPERSCRIPT TWO, a digit that int() does not accept.
DecimalChars == {"0", "1", "2", "3", "4", "5", "6", "7", "8", "9"}

DigitChars == DecimalChars \cup {"²"}

isdigit(s) == Len(s) > 0 /\ \A i \in 1 .. Len(s) : CharAt(s, i) \in DigitChars

\* Whether int(s) returns for a string of digits (it raises ValueError otherwise).
IntAccepts(s) == \A i \in 1 .. Len(s) : CharAt(s, i) \in DecimalChars

DigitValue(c) ==
    CASE c = "0" -> 0 [] c = "1" -> 1 [] c = "2" -> 2 [] c = "3" -> 3 [] c = "4" -> 4
      [] c = "5" -> 5 [] c = "6" -> 6 [] c = "7" -> 7 [] c = "8" -> 8 [] c = "9" -> 9

RECURSIVE int(_)
int(s) ==
    IF Len(s) = 0 THEN 0
    ELSE int(SubSeq(s, 1, Len(s) - 1)) * 10 + DigitValue(CharAt(s, Len(s)))

removeprefix(s, prefix) ==
    IF startswith(s, prefix) THEN SubSeq(s, Len(prefix) + 1, Len(s)) ELSE s

\* map(str.strip, input.split(","))
SelectionTokens(input) ==
    LET parts == split(input, ",") IN [i \in 1 .. Len(parts) |-> strip(parts[i])]

\* Whether the filter's lambda raises ValueError on some token.
SelectionRaises(input) ==
    \E i \in 1 .. Len(SelectionTokens(input)) :
        isdigit(SelectionTokens(input)[i]) /\ ~IntAccepts(SelectionTokens(input)[i])

\* files_to_compile after the filter and the map to paths.
SelectedFiles(files_available, input) ==
    LET kept == SelectSeq(SelectionTokens(input),
                          LAMBDA file_index :
                              /\ isdigit(file_index)
                              /\ 1 <= int(file_index)
                              /\ int(file_index) <= Len(files_available))
    IN [i \in 1 .. Len(kept) |-> files_available[int(kept[i])]]

compile_specific_files(f, o, input, codes) ==
    LET files_available == posorder_traversal(f, o.src_folder, JavaCond)
        listed == <<Msg("stdout", "Files available to compile:", "")>>
                    \o [i \in 1 .. Len(files_available) |->
                           Msg("stdout", ToString(i),
                               removeprefix(files_available[i], o.src_folder \o sep))]
        asked == <<"Choose the files to compile (separated by commas): ">>
    IN IF SelectionRaises(input)
       THEN [Out("compile_specific", <<>>, listed, asked, FALSE)
                EXCEPT !.raised = "ValueError"]
       ELSE LET files_to_compile == SelectedFiles(files_available, input) IN
            IF Len(files_to_compile) = 0
            THEN Out("compile_specific", <<>>,
                     listed \o <<Msg("stderr", "Error> No files were selected!", "")>>,
                     asked, FALSE)
            ELSE LET b == CompileBatch(files_to_compile, o, codes) IN
                 Out("compile_specific", b.cmds, listed \o b.msgs, asked, FALSE)

(***************************************************************************)
(* clear_build                                                             *)
(***************************************************************************)
RECURSIVE RemoveFromQuiet(_, _, _)
\* A plausible slip: the last deletion is not reported.
RemoveFromQuiet(f, files, i) ==
    IF i > Len(files) THEN [fs |-> f, msgs |-> <<>>]
    ELSE LET rest == RemoveFromQuiet(remove(f, files[i]), files, i + 1) IN
         [fs |-> rest.fs,
          msgs |-> (IF i < Len(files) THEN <<Msg("stdout", "Deleted:", files[i])>>
                    ELSE <<>>) \o rest.msgs]

RECURSIVE RemoveFrom(_, _, _)
\* The loop `for file in files_to_delete` from the i-th file on.
RemoveFrom(f, files, i) ==
    IF i > Len(files) THEN [fs |-> f, msgs |-> <<>>]
    ELSE LET rest == RemoveFrom(remove(f, files[i]), files, i + 1) IN
         [fs |-> rest.fs,
          msgs |-> <<Msg("stdout", "Deleted:", files[i])>> \o rest.msgs]

\* clear_build once its loop has left r.
Cleaned(r) ==
    [fs |-> r.fs,
     out |-> Out("clear_build", <<>>,
                 <<Msg("stdout", "Cleaning build...", "")>> \o r.msgs
                   \o <<Msg("stdout", "Build cleaned!", "")>>,
                 <<>>, FALSE)]

clear_build(f, o) ==
    Cleaned(RemoveFrom(f, posorder_traversal(f, o.src_folder, ClassCond), 1))

(***************************************************************************)
(* compile_and_run_project                                                 *)
(***************************************************************************)
\* A plausible slip: the entry file looked up under the class path.
main_file_in_class_path(o) ==
    join(o.class_path, replace(o.main_class_path, ".", sep) \o ".java")

main_file(o) ==
    join(o.src_folder, replace(o.main_class_path, ".", sep) \o ".java")

compile_and_run_project(o, compileCode, runCode) ==
    LET c == compile_file(main_file(o), o, compileCode)
        command == <<"java", "-cp", o.class_path, o.main_class_path>>
    IN IF c.raised
       THEN [Out("compile_and_run", <<c.cmd>>, c.msgs, <<>>, FALSE)
                EXCEPT !.raised = "CompilationError"]
       ELSE Out("compile_and_run", <<c.cmd, command>>,
                c.msgs \o (IF runCode # 0
                           THEN <<Msg("stderr", "Error> Could not run the project!", ""),
                                  Msg("stderr", "program stderr", "")>>
                           ELSE <<Msg("stdout", "program stdout", "")>>),
                <<>>, FALSE)

(***************************************************************************)
(* _process_args: sys.argv holds the program name and the arguments; the   *)
(* answers are what the user types at the prompts that are shown.          *)
(***************************************************************************)
ProgramName == "jacs.py"

\* The prompts _process_args shows for the number of arguments given.
ArgPrompts(sys_argv) ==
    (IF Len(sys_argv) = 1 THEN <<"Folder containing the source code: ">> ELSE <<>>)
    \o (IF Len(sys_argv) <= 2 THEN <<"Main class path: ">> ELSE <<>>)
    \o (IF Len(sys_argv) # 4 THEN <<"Class path: ">> ELSE <<>>)

\* _process_args once CompilationOptions(...) has returned r or exited.
Constructed(r, sys_argv) ==
    [ok |-> r.ok, cause |-> IF r.ok THEN "none" ELSE "invalid_folder",
     opts |-> r.opts, prompts |-> ArgPrompts(sys_argv), msgs |-> r.msgs]

\* The class path _process_args passes on: the fourth argument, or the answer
\* to the prompt, or the source folder when the answer is empty.
ClassPathArg(sys_argv, src_folder, typed) ==
    IF Len(sys_argv) = 4 THEN sys_argv[4]
    ELSE IF typed = "" THEN src_folder ELSE typed

process_args(f, sys_argv, srcAnswer, mainAnswer, cpAnswer) ==
    IF Len(sys_argv) > 4
    THEN [ok |-> FALSE, cause |-> "usage", opts |-> NoOpts, prompts |-> <<>>,
          msgs |-> <<Msg("stderr", "Error> Too many arguments provided!", ""),
                     Msg("stderr", "Usage:", sys_argv[1])>>]
    ELSE LET src_folder == IF Len(sys_argv) = 1 THEN strip(srcAnswer) ELSE sys_argv[2]
             main_path == IF Len(sys_argv) <= 2 THEN strip(mainAnswer) ELSE sys_argv[3]
         IN Constructed(
                CompilationOptionsInit(f,
                    <<src_folder, main_path,
                      ClassPathArg(sys_argv, src_folder, strip(cpAnswer))>>),
                sys_argv)

(***************************************************************************)
(* What the user may type.                                                 *)
(***************************************************************************)
FolderInputs == {"p", "/w/q", "p/s/..", "nope", "p/A.java"}

MainClassInputs == {"A", "s.B", ".A"}

EncodingInputs == {"UTF-8", " UTF-8"}

CompilerInputs == {"javac", "javac "}

VerboseInputs == {"y", "Y ", "n", ""}

MenuInputs == {"0", "1", "2", "3", "4", "5", " 5", "6", "7", "", "x"}

SelectionTokenInputs == {"1", " 2", "3", "4", "0", "x", "²"}

RECURSIVE SeqsUpTo(_, _)
\* The sequences over S of length at most n.
SeqsUpTo(S, n) ==
    IF n = 0 THEN {<<>>}
    ELSE SeqsUpTo(S, n - 1) \cup
         {Append(t, x) : t \in {u \in SeqsUpTo(S, n - 1) : Len(u) = n - 1}, x \in S}

\* The lines typed at the compile-selected prompt: up to MaxTokens tokens
\* separated by commas.
SelectionInputs == {JoinWith(t, ",") : t \in SeqsUpTo(SelectionTokenInputs, MaxTokens)}

ArgInputs == {"p", "A"}

\* sys.argv: the program name and up to MaxArgs arguments.
ArgvChoices == {<<ProgramName>> \o a : a \in SeqsUpTo(ArgInputs, MaxArgs)}

\* str.lower() on the letters of the model.
lower(s) == replace(replace(s, "Y", "y"), "N", "n")

(***************************************************************************)
(* The process: pc is "Start" before the options exist, "MainMenu" at the  *)
(* prompt of show_menu, "Settings" at the prompt of the settings loop and  *)
(* "Exited" when the process has terminated.                               *)
(***************************************************************************)
Exit(status, cause) ==
    /\ pc' = "Exited"
    /\ exitStatus' = <<status>>
    /\ exitCause' = cause

\* An uncaught exception ends the interpreter with a traceback and status 1.
Uncaught(exception) == Exit(1, exception)

Stay(at) ==
    /\ pc' = at
    /\ UNCHANGED <<exitStatus, exitCause>>

PressEnter(o) == [o EXCEPT !.prompts = @ \o <<"Press Enter to continue...">>]

\* The program once load_compilation_options_file has returned r or exited;
\* sys.argv is not looked at on this path.
Loaded(r, sys_argv) ==
    /\ out' = [Out("load", <<>>, r.msgs, <<>>, FALSE) EXCEPT !.input = sys_argv]
    /\ IF r.ok
       THEN opts' = r.opts /\ Stay("MainMenu")
       ELSE opts' = opts /\ Exit(1, "invalid_folder")

\* The file is there: load_compilation_options_file.
StartupLoad ==
    /\ pc = "Start"
    /\ check_if_compilation_options_file_exists(optsFile)
    /\ \E sys_argv \in ArgvChoices :
         Loaded(load_compilation_options_file(fs, optsFile), sys_argv)
    /\ UNCHANGED <<optsFile, fs>>

\* A plausible slip: the file is not created after the first-time setup.
SetUpWithoutSave(r, sys_argv) ==
    IF r.ok
    THEN /\ opts' = r.opts
         /\ out' = [Out("setup", <<>>, r.msgs, r.prompts, FALSE) EXCEPT !.input = sys_argv]
         /\ Stay("MainMenu")
         /\ UNCHANGED optsFile
    ELSE /\ out' = [Out("setup", <<>>, r.msgs, r.prompts, FALSE) EXCEPT !.input = sys_argv]
         /\ Exit(1, r.cause)
         /\ UNCHANGED <<opts, optsFile>>

\* The program once _process_args has returned r or exited: the file is
\* created when it returned.
SetUp(r, sys_argv) ==
    IF r.ok
    THEN /\ opts' = r.opts
         /\ optsFile' = create_compilation_options_file(r.opts)
         /\ out' = [Out("setup", <<>>, r.msgs, r.prompts, TRUE) EXCEPT !.input = sys_argv]
         /\ Stay("MainMenu")
    ELSE /\ out' = [Out("setup", <<>>, r.msgs, r.prompts, FALSE) EXCEPT !.input = sys_argv]
         /\ Exit(1, r.cause)
         /\ UNCHANGED <<opts, optsFile>>

\* The file is absent: _process_args, then create_compilation_options_file.
StartupSetup ==
    /\ pc = "Start"
    /\ ~check_if_compilation_options_file_exists(optsFile)
    /\ \E sys_argv \in ArgvChoices, srcAnswer \in FolderInputs,
          mainAnswer \in MainClassInputs, cpAnswer \in FolderInputs \cup {""} :
         SetUp(process_args(fs, sys_argv, srcAnswer, mainAnswer, cpAnswer), sys_argv)
    /\ UNCHANGED fs

\* The choice show_menu returns.
AtMenu(choice) ==
    /\ pc = "MainMenu"
    /\ \E typed \in MenuInputs : strip(typed) = choice

\* What the program loop does with a handler's outcome: an exception that left
\* the handler ends the process; otherwise "Press Enter" and the menu again.
AfterHandler(o, input) ==
    IF o.raised # "none"
    THEN out' = [o EXCEPT !.input = input] /\ Uncaught(o.raised)
    ELSE out' = [PressEnter(o) EXCEPT !.input = input] /\ Stay("MainMenu")

MenuCompileAll ==
    /\ AtMenu("1")
    /\ \E codes \in [1 .. Len(posorder_traversal(fs, opts.src_folder, JavaCond))
                        -> ExitCodes] :
         AfterHandler(compile_all_files(fs, opts, codes), codes)
    /\ UNCHANGED <<opts, optsFile, fs>>

MenuCompileSpecific ==
    /\ AtMenu("2")
    /\ \E input \in SelectionInputs :
         \E codes \in [1 .. (IF SelectionRaises(input) THEN 0
                              ELSE Len(SelectedFiles(
                                     posorder_traversal(fs, opts.src_folder, JavaCond),
                                     input)))
                          -> ExitCodes] :
           AfterHandler(compile_specific_files(fs, opts, input, codes), <<input, codes>>)
    /\ UNCHANGED <<opts, optsFile, fs>>

\* The program loop once clear_build has left r.
AfterClearBuild(r) ==
    /\ fs' = r.fs
    /\ AfterHandler(r.out, <<>>)

MenuClearBuild ==
    /\ AtMenu("3")
    /\ AfterClearBuild(clear_build(fs, opts))
    /\ UNCHANGED <<opts, optsFile>>

MenuCompileAndRun ==
    /\ AtMenu("4")
    /\ \E compileCode \in ExitCodes, runCode \in ExitCodes :
         AfterHandler(compile_and_run_project(opts, compileCode, runCode),
                      <<compileCode, runCode>>)
    /\ UNCHANGED <<opts, optsFile, fs>>

\* Choice 5 enters setup_compilation_options, whose loop prompts next.
MenuSetup ==
    /\ AtMenu("5")
    /\ out' = Out("setup_compilation_options", <<>>, <<>>, <<>>, FALSE)
    /\ Stay("Settings")
    /\ UNCHANGED <<opts, optsFile, fs>>

MenuExit ==
    /\ AtMenu("0")
    /\ out' = Out("exit", <<>>, <<Msg("stdout", "Exiting the program...", "")>>, <<>>, FALSE)
    /\ Exit(0, "menu_exit")
    /\ UNCHANGED <<opts, optsFile, fs>>

\* A plausible slip: an unknown choice falls into the branch of choice 0.
MenuInvalidExits ==
    /\ pc = "MainMenu"
    /\ \E typed \in MenuInputs :
         /\ strip(typed) \notin {"0", "1", "2", "3", "4", "5"}
         /\ out' = [Out("invalid", <<>>, <<Msg("stderr", "Error> Invalid option!", "")>>,
                         <<>>, FALSE) EXCEPT !.input = <<typed>>]
    /\ Exit(0, "menu_exit")
    /\ UNCHANGED <<opts, optsFile, fs>>

\* Any other choice: the error, then `continue`; the line typed is left in
\* out.input.
MenuInvalid ==
    /\ pc = "MainMenu"
    /\ \E typed \in MenuInputs :
         /\ strip(typed) \notin {"0", "1", "2", "3", "4", "5"}
         /\ out' = [Out("invalid", <<>>, <<Msg("stderr", "Error> Invalid option!", "")>>,
                         <<>>, FALSE) EXCEPT !.input = <<typed>>]
    /\ Stay("MainMenu")
    /\ UNCHANGED <<opts, optsFile, fs>>

(***************************************************************************)
(* setup_compilation_options: one action per branch of the loop body.  The *)
(* file is written after the loop, when "0" breaks out of it.              *)
(***************************************************************************)
InSettings(choice) ==
    /\ pc = "Settings"
    /\ \E typed \in MenuInputs : strip(typed) = choice

\* The end of an iteration that called a setter which may exit.
AfterSetter(r, prompt) ==
    /\ out' = Out("setup_compilation_options", <<>>, r.msgs, <<prompt>>, FALSE)
    /\ IF r.ok
       THEN opts' = r.opts /\ Stay("Settings")
       ELSE opts' = opts /\ Exit(1, "invalid_folder")

SetupSrcFolder ==
    /\ InSettings("1")
    /\ \E typed \in FolderInputs :
         AfterSetter(set_src_folder(fs, opts, strip(typed)), "New source folder: ")
    /\ UNCHANGED <<optsFile, fs>>

SetupMainClassPath ==
    /\ InSettings("2")
    /\ \E typed \in MainClassInputs :
         opts' = set_main_class_path(opts, strip(typed))
    /\ out' = Out("setup_compilation_options", <<>>, <<>>, <<"New main class path: ">>, FALSE)
    /\ Stay("Settings")
    /\ UNCHANGED <<optsFile, fs>>

SetupClassPath ==
    /\ InSettings("3")
    /\ \E typed \in FolderInputs :
         AfterSetter(set_class_path(fs, opts, strip(typed)), "New class path: ")
    /\ UNCHANGED <<optsFile, fs>>

SetupVerbose ==
    /\ InSettings("4")
    /\ \E typed \in VerboseInputs :
         opts' = set_verbose(opts, lower(strip(typed)) = "y")
    /\ out' = Out("setup_compilation_options", <<>>, <<>>, <<"Verbose (y/n): ">>, FALSE)
    /\ Stay("Settings")
    /\ UNCHANGED <<optsFile, fs>>

SetupEncoding ==
    /\ InSettings("5")
    /\ \E typed \in EncodingInputs :
         opts' = set_encoding(opts, strip(typed))
    /\ out' = Out("setup_compilation_options", <<>>, <<>>, <<"New encoding: ">>, FALSE)
    /\ Stay("Settings")
    /\ UNCHANGED <<optsFile, fs>>

SetupCompiler ==
    /\ InSettings("6")
    /\ \E typed \in CompilerInputs :
         opts' = set_compiler(opts, strip(typed))
    /\ out' = Out("setup_compilation_options", <<>>, <<>>, <<"New compiler: ">>, FALSE)
    /\ Stay("Settings")
    /\ UNCHANGED <<optsFile, fs>>

\* A plausible slip: returning from the submenu without saving.
SetupReturnWithoutSave ==
    /\ InSettings("0")
    /\ out' = PressEnter(Out("setup_compilation_options", <<>>,
                              <<Msg("stdout", "Compilation options updated!", "")>>,
                              <<>>, FALSE))
    /\ Stay("MainMenu")
    /\ UNCHANGED <<opts, optsFile, fs>>

\* "0": break, write the file, report, and back in the program loop.
SetupReturn ==
    /\ InSettings("0")
    /\ optsFile' = create_compilation_options_file(opts)
    /\ out' = PressEnter(Out("setup_compilation_options", <<>>,
                              <<Msg("stdout", "Compilation options updated!", "")>>,
                              <<>>, TRUE))
    /\ Stay("MainMenu")
    /\ UNCHANGED <<opts, fs>>

\* Any other choice: the error, then `continue`; the line typed is left in
\* out.input.
SetupInvalid ==
    /\ pc = "Settings"
    /\ \E typed \in MenuInputs :
         /\ strip(typed) \notin {"0", "1", "2", "3", "4", "5", "6"}
         /\ out' = [Out("setup_compilation_options", <<>>,
                         <<Msg("stderr", "Error> Invalid choice! Try again.", "")>>,
                         <<>>, FALSE) EXCEPT !.input = <<typed>>]
    /\ Stay("Settings")
    /\ UNCHANGED <<opts, optsFile, fs>>

(***************************************************************************)
(* The whole program, started in the directory /w.                         *)
(***************************************************************************)
StartFs ==
    [d \in {"/", "/w", "/w/p", "/w/p/s", "/w/q"} |->
        CASE d = "/" -> <<"w">>
          [] d = "/w" -> <<"p", "q">>
          [] d = "/w/p" -> <<"A.java", "A.class", "s", "C.java">>
          [] d = "/w/p/s" -> <<"B.java", "B.class">>
          [] d = "/w/q" -> <<"README">>]

\* Options an earlier run may have saved; the source folder of the second
\* has been removed since.
SavedOptions ==
    [src_folder |-> "/w/p", main_class_path |-> "A", class_path |-> "/w/q",
     verbose |-> TRUE, encoding |-> "UTF-8", compiler |-> "javac"]

StaleOptions == [SavedOptions EXCEPT !.src_folder = "/w/gone"]

InitialFiles ==
    {NoFile, create_compilation_options_file(SavedOptions),
     create_compilation_options_file(StaleOptions)}

Init ==
    /\ pc = "Start"
    /\ exitStatus = <<>>
    /\ exitCause = "none"
    /\ opts = NoOpts
    /\ optsFile \in InitialFiles
    /\ fs = StartFs
    /\ out = NoOut

Next ==
    \/ StartupLoad
    \/ StartupSetup
    \/ MenuCompileAll
    \/ MenuCompileSpecific
    \/ MenuClearBuild
    \/ MenuCompileAndRun
    \/ MenuSetup
    \/ MenuExit
    \/ MenuInvalid
    \/ SetupSrcFolder
    \/ SetupMainClassPath
    \/ SetupClassPath
    \/ SetupVerbose
    \/ SetupEncoding
    \/ SetupCompiler
    \/ SetupReturn
    \/ SetupInvalid

Spec == Init /\ [][Next]_vars

(***************************************************************************)
(* The traversal and the cleaner on every directory tree of at most        *)
(* MaxNodes entries below the root TreeRoot.  Entry i has a parent (0 is   *)
(* the root, otherwise an earlier entry that is a directory) and a kind;   *)
(* a directory lists its entries in the order of their numbers, so every   *)
(* shape and every interleaving of files and directories occurs.  The      *)
(* names are taken from one of two alphabets, so that a listing            *)
(* (os.listdir returns the entries in arbitrary order) is in ascending or  *)
(* in descending order of the names.                                       *)
(***************************************************************************)
TreeRoot == "/t"

\* The kinds of entry: a directory, a directory whose name ends in .class,
\* and files with the extensions .java and .class and with none.
EntryKinds ==
    {[dir |-> TRUE, ext |-> ""], [dir |-> TRUE, ext |-> ".class"],
     [dir |-> FALSE, ext |-> ".java"], [dir |-> FALSE, ext |-> ".class"],
     [dir |-> FALSE, ext |-> ""]}

Alphabets == {"abcdefghijklmnop", "ponmlkjihgfedcba"}

EntryName(t, i) == CharAt(t.names, i) \o t.kind[i].ext

\* The shapes: the parent and the kind of each of n entries.
TreeShapes ==
    UNION {{[parent |-> p, kind |-> k, names |-> a] :
              p \in {q \in [1 .. n -> 0 .. n] :
                       \A i \in 1 .. n : q[i] < i},
              k \in [1 .. n -> EntryKinds],
              a \in Alphabets} : n \in 0 .. MaxNodes}

WellFormedShape(t) ==
    \A i \in DOMAIN t.parent : t.parent[i] = 0 \/ t.kind[t.parent[i]].dir

RECURSIVE EntryPath(_, _)
EntryPath(t, i) ==
    IF i = 0 THEN TreeRoot
    ELSE join(EntryPath(t, t.parent[i]), EntryName(t, i))

RECURSIVE ListingFrom(_, _, _)
\* The names of the entries of directory d numbered i and above.
ListingFrom(t, d, i) ==
    IF i > Len(t.parent) THEN <<>>
    ELSE (IF t.parent[i] = d THEN <<EntryName(t, i)>> ELSE <<>>)
            \o ListingFrom(t, d, i + 1)

\* The file system holding the tree of shape t.
TreeFs(t) ==
    LET dirs == {0} \cup {i \in DOMAIN t.parent : t.kind[i].dir} IN
    [path \in {EntryPath(t, d) : d \in dirs} |->
        ListingFrom(t, CHOOSE d \in dirs : EntryPath(t, d) = path, 1)]

Trees == {TreeFs(t) : t \in {u \in TreeShapes : WellFormedShape(u)}}

\* The conditions a scan is tried with: the two the program uses, one that
\* accepts every path, and every set of entries of the tree.
Conditions(f) ==
    {JavaCond, ClassCond, EndsWithCond("")} \cup {InSetCond(S) : S \in SUBSET EntryPaths(f)}

\* The options of a run whose source folder is the directory d of the tree.
TreeOptions(d) ==
    [src_folder |-> d, main_class_path |-> "a", class_path |-> TreeRoot,
     verbose |-> FALSE, encoding |-> "UTF-8", compiler |-> "javac"]

TreeInit ==
    /\ pc = "MainMenu"
    /\ exitStatus = <<>>
    /\ exitCause = "none"
    /\ fs \in Trees
    /\ opts \in {TreeOptions(d) : d \in DOMAIN fs}
    /\ optsFile = create_compilation_options_file(opts)
    /\ out = NoOut

\* _posorder_traversal(folder, condition) on a directory of the tree; the
\* result is left in out.ret and the arguments in out.input.
Scan ==
    /\ pc = "MainMenu"
    /\ \E folder \in DOMAIN fs, cond \in Conditions(fs) :
         out' = [Out("scan", <<>>, <<>>, <<>>, FALSE)
                    EXCEPT !.ret = posorder_traversal(fs, folder, cond),
                           !.input = <<folder, cond>>]
    /\ UNCHANGED <<pc, exitStatus, exitCause, opts, optsFile, fs>>

TreeNext ==
    \/ Scan
    \/ MenuClearBuild

SpecTree == TreeInit /\ [][TreeNext]_vars

(***************************************************************************)
(* Saving and loading: create_compilation_options_file followed by         *)
(* load_compilation_options_file on every record the setters can produce   *)
(* in the file system StartFs.                                             *)
(***************************************************************************)
RoundTripRecords ==
    [src_folder : DOMAIN StartFs, main_class_path : {"A", "s.B", ""},
     class_path : DOMAIN StartFs, verbose : BOOLEAN,
     encoding : {"UTF-8", "latin1", "true"}, compiler : {"javac", "/opt/jdk/bin/javac"}]

RoundTripInit ==
    /\ pc = "RoundTrip"
    /\ exitStatus = <<>>
    /\ exitCause = "none"
    /\ opts \in RoundTripRecords
    /\ optsFile = NoFile
    /\ fs = StartFs
    /\ out = NoOut

Save ==
    /\ pc = "RoundTrip"
    /\ optsFile' = create_compilation_options_file(opts)
    /\ out' = Out("create_compilation_options_file", <<>>, <<>>, <<>>, TRUE)
    /\ UNCHANGED <<pc, exitStatus, exitCause, opts, fs>>

\* The loaded object (or the exit) is left in out.ret.
Load ==
    /\ pc = "RoundTrip"
    /\ check_if_compilation_options_file_exists(optsFile)
    /\ out' = [Out("load_compilation_options_file", <<>>, <<>>, <<>>, FALSE)
                  EXCEPT !.ret = load_compilation_options_file(fs, optsFile)]
    /\ UNCHANGED <<pc, exitStatus, exitCause, opts, optsFile, fs>>

RoundTripNext ==
    \/ Save
    \/ Load

SpecRoundTrip == RoundTripInit /\ [][RoundTripNext]_vars

(***************************************************************************)
(* _validate_folder and the two setters that call it, on every path of at  *)
(* most MaxComponents components, relative, absolute, with "." and "..",   *)
(* with empty components and a trailing separator.  Paths that begin with  *)
(* exactly two separators are left out: how they resolve is up to the      *)
(* platform.                                                               *)
(***************************************************************************)
PathComponents == {"p", "s", "q", "..", ".", "nope", "A.java", ""}

PathInputs ==
    {path \in {prefix \o JoinWith(comps, "/") :
                 prefix \in {"", "/", "/w/"},
                 comps \in SeqsUpTo(PathComponents, MaxComponents)} :
        ~(startswith(path, "//") /\ ~startswith(path, "///"))}

ValidateInit ==
    /\ pc = "Validate"
    /\ exitStatus = <<>>
    /\ exitCause = "none"
    /\ opts = SavedOptions
    /\ optsFile = create_compilation_options_file(SavedOptions)
    /\ fs = StartFs
    /\ out \in {[NoOut EXCEPT !.input = <<path>>] : path \in PathInputs}

\* self._validate_folder(path): the outcome is left in out.ret.
ValidateFolder ==
    /\ pc = "Validate"
    /\ out.op = "none"
    /\ out' = [Out("_validate_folder", <<>>, <<>>, <<>>, FALSE)
                  EXCEPT !.ret = validate_folder(fs, out.input[1]),
                         !.input = out.input]
    /\ UNCHANGED <<pc, exitStatus, exitCause, opts, optsFile, fs>>

\* The process once a setter has returned r or exited inside _validate_folder.
Assigned(op, r) ==
    /\ out' = [Out(op, <<>>, r.msgs, <<>>, FALSE) EXCEPT !.input = out.input]
    /\ IF r.ok
       THEN opts' = r.opts /\ Stay("Validate")
       ELSE opts' = opts /\ Exit(1, "invalid_folder")

SetSrcFolder ==
    /\ pc = "Validate"
    /\ out.op = "none"
    /\ Assigned("set_src_folder", set_src_folder(fs, opts, out.input[1]))
    /\ UNCHANGED <<optsFile, fs>>

SetClassPath ==
    /\ pc = "Validate"
    /\ out.op = "none"
    /\ Assigned("set_class_path", set_class_path(fs, opts, out.input[1]))
    /\ UNCHANGED <<optsFile, fs>>

ValidateNext ==
    \/ ValidateFolder
    \/ SetSrcFolder
    \/ SetClassPath

SpecValidate == ValidateInit /\ [][ValidateNext]_vars

(***************************************************************************)
(* Properties.                                                             *)
(***************************************************************************)
Last(q) == q[Len(q)]

Printed(text) == \E i \in 1 .. Len(out.msgs) : out.msgs[i].t = text

\* The files handed to the compiler: the last word of each command line
\* whose first word is the configured compiler.
CompilerRuns == SelectSeq(out.cmds, LAMBDA c : c[1] = opts.compiler)

Attempted == [i \in 1 .. Len(CompilerRuns) |-> Last(CompilerRuns[i])]

IsBatch == out.op \in {"compile_all", "compile_specific"} /\ out.raised = "none"

\* The list a batch operation was given and the exit codes its compiler
\* processes were assigned.
BatchFiles ==
    IF out.op = "compile_all"
    THEN posorder_traversal(fs, opts.src_folder, JavaCond)
    ELSE SelectedFiles(posorder_traversal(fs, opts.src_folder, JavaCond), out.input[1])

BatchCodes == IF out.op = "compile_all" THEN out.input ELSE out.input[2]

Failing(codes) == {i \in 1 .. Len(codes) : codes[i] # 0}

FirstFailure(codes) == CHOOSE i \in Failing(codes) : \A j \in Failing(codes) : i <= j

\* C1: in compile-all and compile-selected the files handed to the compiler
\* are exactly the prefix of the list up to and including the first file
\* whose compile exits non-zero (the whole list when none does); no later
\* file is attempted; "could not compile all files" is reported exactly when
\* some compile failed; the success message appears only when every file
\* exited with 0.
C1_FailFastPrefix ==
    IsBatch =>
        /\ Attempted = IF Failing(BatchCodes) = {} THEN BatchFiles
                       ELSE SubSeq(BatchFiles, 1, FirstFailure(BatchCodes))
        /\ Len(out.cmds) = Len(Attempted)
        /\ Printed("Error> Could not compile all files!") <=> Failing(BatchCodes) # {}
        /\ Printed("Compilation finished!") => Failing(BatchCodes) = {}
        /\ pc = "MainMenu"

\* Three files of which the second fails: two compiler runs.
C1_Witness ==
    /\ out.op = "compile_all"
    /\ Len(BatchFiles) = 3
    /\ BatchCodes = <<0, 1, 0>>
    /\ Len(out.cmds) = 2

\* Another case of C1: a selection with a repeated file whose second compile fails.
C1_WitnessSelected ==
    /\ out.op = "compile_specific"
    /\ out.raised = "none"
    /\ Len(BatchFiles) = 2
    /\ BatchFiles[1] = BatchFiles[2]
    /\ BatchCodes = <<0, 1>>

\* C2 (as claimed): a compilation failure in any main-menu operation, the
\* compile step of compile-and-run included, is caught and reported and
\* control returns to the main menu: the process does not terminate.
C2_CompileFailureReturnsToMenu ==
    (/\ out.op \in {"compile_all", "compile_specific", "compile_and_run"}
     /\ Printed("Error> Could not compile the file"))
        => (pc = "MainMenu" /\ exitStatus = <<>>)

\* Whether the persisted file holds exactly the six fields of record o.
FileHolds(file, o) ==
    /\ Len(file) = 6
    /\ {file[i][1] : i \in 1 .. Len(file)} = OptionKeys
    /\ \A key \in OptionKeys : Member(file, key) = o[key]

\* C3 (as claimed): in the settings submenu every mutation is followed at
\* once by a write of the persisted file, so at every submenu prompt the
\* file equals the in-memory record.
C3_FileWrittenAfterEveryMutation ==
    pc = "Settings" => FileHolds(optsFile, opts)

\* C3 (amended): an iteration of the settings loop that stays in the submenu
\* or exits the process leaves the persisted file as it was; the file is
\* written once, when "0" (return) leaves the loop, and then holds the
\* in-memory record, which that step does not change.
C3_FileWrittenOnReturnOnly ==
    [][/\ (pc = "Settings" /\ pc' # "MainMenu") => optsFile' = optsFile
       /\ (pc = "Settings" /\ pc' = "MainMenu")
            => (opts' = opts /\ FileHolds(optsFile', opts') /\ out'.wrote)]_vars

\* A submenu prompt after a setter has run, with the file still holding the
\* old value.
C3_Witness ==
    /\ pc = "Settings"
    /\ out.prompts = <<"Verbose (y/n): ">>
    /\ opts.verbose
    /\ ~Member(optsFile, "verbose")

\* C4 (as claimed): once the menu loop has started the process terminates
\* only through main-menu choice "0", with exit status 0.
C4_TerminatesOnlyByChoiceZero ==
    (pc = "Exited" /\ out.op \notin {"load", "setup"})
        => (exitStatus = <<0>> /\ exitCause = "menu_exit" /\ out.op = "exit")

\* C5: whenever the options exist, src_folder and class_path are each unset
\* or an absolute path that is a directory (directories are never removed
\* in the model, so a directory at the time of the assignment is one now).
ValidFolder(p) == p = "" \/ (CharAt(p, 1) = "/" /\ p \in DOMAIN fs /\ normpath(p) = p)

C5_FoldersAbsoluteDirectories ==
    opts # NoOpts => (ValidFolder(opts.src_folder) /\ ValidFolder(opts.class_path))

\* The source folder was set in the submenu from a relative path.
C5_Witness ==
    /\ pc = "Settings"
    /\ out.prompts = <<"New class path: ">>
    /\ opts.class_path = "/w/p"
    /\ opts.src_folder = "/w/q"

\* C6: create_compilation_options_file followed by
\* load_compilation_options_file yields a record equal to the saved one in
\* all six fields, and the written object has exactly the six keys.
C6_RoundTrip ==
    /\ optsFile # NoFile =>
         (Len(optsFile) = 6 /\ {optsFile[i][1] : i \in 1 .. Len(optsFile)} = OptionKeys)
    /\ out.op = "load_compilation_options_file" =>
         /\ out.ret.ok
         /\ DOMAIN out.ret.opts = OptionKeys
         /\ \A key \in OptionKeys : out.ret.opts[key] = opts[key]

\* A record with every field away from its default, saved and loaded.
C6_Witness ==
    /\ out.op = "load_compilation_options_file"
    /\ out.ret.ok
    /\ opts.verbose
    /\ opts.encoding = "true"
    /\ opts.compiler # "javac"
    /\ opts.src_folder = "/w/p/s"
    /\ opts.class_path = "/w/q"

Count(q, x) == Cardinality({i \in 1 .. Len(q) : q[i] = x})

Under(folder, p) == startswith(p, folder \o "/")

ScanFolder == out.input[1]

ScanCond == out.input[2]

\* The non-directory entries at any depth under the scanned folder that
\* satisfy the condition.
Matching ==
    {p \in FilePaths(fs) : Under(ScanFolder, p) /\ condition(ScanCond, p)}

\* C7: a scan returns each non-directory entry at any depth under the folder
\* that satisfies the predicate exactly once and nothing else (no directory,
\* no file that does not match); the scan leaves the tree as it is, and a
\* second scan of it returns the same multiset.
C7_ScanExact ==
    out.op = "scan" =>
        /\ \A p \in Matching : Count(out.ret, p) = 1
        /\ \A i \in 1 .. Len(out.ret) : out.ret[i] \in Matching
        /\ \A p \in EntryPaths(fs) :
              Count(posorder_traversal(fs, ScanFolder, ScanCond), p) = Count(out.ret, p)

\* A scan from the root that returned a file inside a subdirectory which
\* itself satisfies the predicate, while another file did not match.
C7_Witness ==
    /\ out.op = "scan"
    /\ ScanFolder = TreeRoot
    /\ \E d \in DOMAIN fs \ {TreeRoot} :
         /\ condition(ScanCond, d)
         /\ \E i \in 1 .. Len(out.ret) : Under(d, out.ret[i])
    /\ \E p \in FilePaths(fs) : ~condition(ScanCond, p)

ClassFilesUnder(f, folder) ==
    {p \in FilePaths(f) : Under(folder, p) /\ endswith(p, ".class")}

\* C8: clean (menu choice 3) removes exactly the files under the source
\* folder, at any depth, whose name ends with .class; every other file,
\* every directory, the order of every listing, the options record and the
\* persisted file are left unchanged.
C8_CleanRemovesExactlyClassFiles ==
    [][MenuClearBuild =>
        /\ FilePaths(fs') = FilePaths(fs) \ ClassFilesUnder(fs, opts.src_folder)
        /\ DOMAIN fs' = DOMAIN fs
        /\ \A d \in DOMAIN fs :
              fs'[d] = SelectSeq(fs[d],
                         LAMBDA n : join(d, n) \notin ClassFilesUnder(fs, opts.src_folder))
        /\ opts' = opts
        /\ optsFile' = optsFile]_vars

Deletions == SelectSeq(out.msgs, LAMBDA m : m.t = "Deleted:")

\* After a clean that deleted two files: a .java file under the source
\* folder, a directory named like a class file, and a .class file outside
\* the source folder are still there.
C8_Witness ==
    /\ out.op = "clear_build"
    /\ Len(Deletions) = 2
    /\ \E p \in FilePaths(fs) : Under(opts.src_folder, p) /\ endswith(p, ".java")

\* After a clean from a subfolder: a .class file outside it is still there.
C8_WitnessOutside ==
    /\ out.op = "clear_build"
    /\ Len(Deletions) = 1
    /\ \E p \in FilePaths(fs) : ~Under(opts.src_folder, p) /\ endswith(p, ".class")

WellFormedDotted(name) ==
    \A i \in 1 .. Len(split(name, ".")) : split(name, ".")[i] # ""

\* <sourceFolder>/a/b/C.java for the entry point a.b.C
EntryFile(folder, name) == JoinWith(<<folder>> \o split(name, "."), "/") \o ".java"

\* C10: compile-and-run hands the compiler the file <sourceFolder>/a/b/C.java
\* of the dotted entry point a.b.C first; the runtime is started only after
\* that compile exited with 0, and never when it failed; its command line is
\* java -cp <classPath> <mainEntryPoint>.
C10_CompileThenRun ==
    out.op = "compile_and_run" =>
        /\ Len(out.cmds) \in {1, 2}
        /\ out.cmds[1][1] = opts.compiler
        /\ WellFormedDotted(opts.main_class_path) =>
              Last(out.cmds[1]) = EntryFile(opts.src_folder, opts.main_class_path)
        /\ Len(out.cmds) = 2 <=> out.input[1] = 0
        /\ Len(out.cmds) = 2 =>
              out.cmds[2] = <<"java", "-cp", opts.class_path, opts.main_class_path>>

\* The entry point s.B compiled and run with a class path that is not the
\* source folder.
C10_Witness ==
    /\ out.op = "compile_and_run"
    /\ opts.main_class_path = "s.B"
    /\ opts.class_path # opts.src_folder
    /\ Len(out.cmds) = 2
    /\ Last(out.cmds[1]) = "/w/p/s/B.java"

\* The compile of the entry file failed and the runtime was not started.
C10_WitnessFailed ==
    /\ out.op = "compile_and_run"
    /\ out.input[1] # 0
    /\ Len(out.cmds) = 1

Arguments == Len(out.input) - 1

\* C11: started with more than three arguments, the tool exits with status 1
\* and a usage message, without a prompt, without reaching the menu and
\* without writing the options file; with at most three arguments there is
\* no usage error.
C11_TooManyArgumentsIsUsageError ==
    out.op \in {"load", "setup"} =>
        /\ Arguments > 3 =>
              /\ pc = "Exited"
              /\ exitStatus = <<1>>
              /\ Printed("Usage:")
              /\ out.prompts = <<>>
              /\ ~out.wrote
        /\ Arguments <= 3 => ~Printed("Usage:") /\ exitCause # "usage"

MainChoices == {"0", "1", "2", "3", "4", "5"}

SettingsChoices == {"0", "1", "2", "3", "4", "5", "6"}

\* C12: a line that is not one of the listed choices, typed at the main menu
\* or in the settings submenu, prints an error on stderr and leaves the
\* process at the same menu: it does not terminate, no compiler or runtime is
\* started, no file is deleted, no prompt of an operation is shown, the
\* options record does not change and the options file is not written.
C12_InvalidChoiceReprompts ==
    [][(MenuInvalid \/ SetupInvalid) =>
        /\ pc' = pc
        /\ exitStatus' = <<>>
        /\ opts' = opts
        /\ optsFile' = optsFile
        /\ fs' = fs
        /\ out'.cmds = <<>>
        /\ out'.prompts = <<>>
        /\ ~out'.wrote
        /\ \E i \in 1 .. Len(out'.msgs) : out'.msgs[i].s = "stderr"
        /\ strip(out'.input[1]) \notin
              (IF pc = "MainMenu" THEN MainChoices ELSE SettingsChoices)]_vars

\* "6" is not a choice of the main menu: the menu is shown again.
C12_Witness ==
    /\ pc = "MainMenu"
    /\ out.op = "invalid"
    /\ out.input = <<"6">>

\* "7" in the settings submenu while a change of the record is not saved yet.
C12_WitnessSettings ==
    /\ pc = "Settings"
    /\ Printed("Error> Invalid choice! Try again.")
    /\ out.input = <<"7">>
    /\ ~FileHolds(optsFile, opts)

\* C13: at start-up with the options file absent, the first-time setup runs
\* (arguments and prompts) and, when it yields valid directories, the file
\* exists and holds the resulting record when the main menu is first
\* reached; with the file present the record is the one the file holds, the
\* file is left as it is and no setup prompt is shown.
C13_StartupCreatesOrLoadsFile ==
    [][pc = "Start" =>
        /\ optsFile = NoFile =>
              /\ out'.op = "setup"
              /\ pc' = "MainMenu" =>
                    /\ optsFile' # NoFile
                    /\ FileHolds(optsFile', opts')
                    /\ ValidFolder(opts'.src_folder)
                    /\ ValidFolder(opts'.class_path)
              /\ pc' # "MainMenu" => optsFile' = NoFile /\ exitStatus' = <<1>>
        /\ optsFile # NoFile =>
              /\ out'.op = "load"
              /\ out'.prompts = <<>>
              /\ optsFile' = optsFile
              /\ pc' = "MainMenu" => FileHolds(optsFile, opts')]_vars

\* First-time setup with one argument and two prompts reached the menu with
\* the file created.
C13_Witness ==
    /\ pc = "MainMenu"
    /\ out.op = "setup"
    /\ Len(out.input) = 2
    /\ Len(out.prompts) = 2
    /\ optsFile # NoFile
    /\ opts.class_path # opts.src_folder

\* The file was present: the menu is reached with its record and no prompt.
C13_WitnessLoaded ==
    /\ pc = "MainMenu"
    /\ out.op = "load"
    /\ opts = SavedOptions

\* The directory that lists d (the root lists itself).
Parent(d) ==
    IF d = "/" THEN "/"
    ELSE CHOOSE e \in DOMAIN fs : \E i \in 1 .. Len(fs[e]) : join(e, fs[e][i]) = d

RECURSIVE WalkFrom(_, _, _)
\* The directory reached from d by following the components from the i-th
\* on, one directory at a time; "none" when a component is not a directory.
WalkFrom(d, comps, i) ==
    IF i > Len(comps) THEN d
    ELSE IF comps[i] \in {"", "."} THEN WalkFrom(d, comps, i + 1)
    ELSE IF comps[i] = ".." THEN WalkFrom(Parent(d), comps, i + 1)
    ELSE IF join(d, comps[i]) \in DOMAIN fs THEN WalkFrom(join(d, comps[i]), comps, i + 1)
    ELSE "none"

\* The directory a path names for the process, "none" when it names none.
Walk(path) == WalkFrom(IF startswith(path, "/") THEN "/" ELSE Cwd, split(path, "/"), 1)

NormalAbsolute(path) ==
    /\ startswith(path, "/")
    /\ path # "/" =>
          \A i \in 2 .. Len(split(path, "/")) : split(path, "/")[i] \notin {"", ".", ".."}

ValidatedPath == out.input[1]

\* C14: _validate_folder returns the absolute form of the path when it names
\* an existing directory, for relative and absolute paths alike (an absolute
\* normal path is returned as it is); what it returns is always an absolute,
\* normal path of an existing directory.  Otherwise it does not return: the
\* process ends with status 1, the field being set keeps its old value, and
\* the one message printed names the base name only.
C14_ValidateFolder ==
    /\ out.op = "_validate_folder" =>
         /\ Walk(ValidatedPath) # "none" =>
               out.ret.ok /\ out.ret.path = Walk(ValidatedPath)
         /\ ValidatedPath \in DOMAIN fs => out.ret.path = ValidatedPath
         /\ out.ret.ok =>
               /\ NormalAbsolute(out.ret.path)
               /\ out.ret.path \in DOMAIN fs
               /\ out.ret.msgs = <<>>
         /\ ~out.ret.ok =>
               /\ Walk(ValidatedPath) = "none"
               /\ Len(out.ret.msgs) = 1
               /\ out.ret.msgs[1].s = "stderr"
               /\ Len(split(out.ret.msgs[1].a, "/")) = 1
               /\ out.ret.msgs[1].a \in PathComponents \ {"", ".", ".."}
    /\ out.op \in {"set_src_folder", "set_class_path"} =>
         IF Walk(ValidatedPath) # "none"
         THEN /\ pc = "Validate"
              /\ opts = [SavedOptions EXCEPT ![IF out.op = "set_src_folder"
                                               THEN "src_folder" ELSE "class_path"]
                                                = Walk(ValidatedPath)]
         ELSE pc = "Exited" => (exitStatus = <<1>> /\ opts = SavedOptions)

\* A relative path with ".." that names the directory /w/p.
C14_Witness ==
    /\ out.op = "_validate_folder"
    /\ ValidatedPath = "q/../p"
    /\ out.ret.ok
    /\ out.ret.path = "/w/p"

\* A path to a file: the setter exits and the message names A.java.
C14_WitnessExit ==
    /\ out.op = "set_class_path"
    /\ ValidatedPath = "/w/p/A.java"
    /\ pc = "Exited"
    /\ out.msgs[1].a = "A.java"

\* The number of leading components two paths share.
CommonLen(a, b) ==
    CHOOSE k \in 0 .. Len(a) :
        /\ k <= Len(b)
        /\ SubSeq(a, 1, k) = SubSeq(b, 1, k)
        /\ k = Len(a) \/ k = Len(b) \/ a[k + 1] # b[k + 1]

\* The position of a name in the listing of directory d.
ListingIndex(d, name) == CHOOSE i \in 1 .. Len(fs[d]) : fs[d][i] = name

\* In the deepest directory that holds both files p and q, the entry that
\* leads to p is listed before the entry that leads to q.
ListedBefore(p, q) ==
    LET a == split(p, "/")
        b == split(q, "/")
        k == CommonLen(a, b)
    IN /\ k < Len(a)
       /\ k < Len(b)
       /\ ListingIndex(JoinWith(SubSeq(a, 1, k), "/"), a[k + 1])
             < ListingIndex(JoinWith(SubSeq(a, 1, k), "/"), b[k + 1])

\* C15: a scan keeps the order "recurse at once, splice in place": of two
\* files in the result, the earlier is the one whose entry comes first in
\* the listing of the deepest directory holding both; so the files below a
\* subdirectory are contiguous and come before everything contributed by a
\* sibling listed after it, whatever the names are.
C15_ScanSplicesInListingOrder ==
    out.op = "scan" =>
        /\ \A i, j \in 1 .. Len(out.ret) :
              i < j => ListedBefore(out.ret[i], out.ret[j])
        /\ \A d \in DOMAIN fs : \A i, j, k \in 1 .. Len(out.ret) :
              (i < j /\ j < k /\ Under(d, out.ret[i]) /\ Under(d, out.ret[k]))
                  => Under(d, out.ret[j])

\* The listing of the root is p, o.java and p holds n.java: the file of p
\* comes before o.java, which the order of the names would put first.
C15_Witness ==
    /\ out.op = "scan"
    /\ fs[TreeRoot] = <<"p", "o.java">>
    /\ out.ret = <<"/t/p/n.java", "/t/o.java">>

\* The tokens typed at the compile-selected prompt, without the blanks around
\* them.
TypedTokens ==
    [i \in 1 .. Len(split(out.input[1], ",")) |-> strip(split(out.input[1], ",")[i])]

AvailableFiles == posorder_traversal(fs, opts.src_folder, JavaCond)

\* A decimal number i with 1 <= i <= number of available files.
DecimalInRange(token) ==
    /\ Len(token) > 0
    /\ \A i \in 1 .. Len(token) : CharAt(token, i) \in DecimalChars
    /\ 1 <= int(token)
    /\ int(token) <= Len(AvailableFiles)

\* The files the tokens select, in the order typed, duplicates kept.
ChosenFiles ==
    [i \in 1 .. Len(SelectSeq(TypedTokens, DecimalInRange)) |->
        AvailableFiles[int(SelectSeq(TypedTokens, DecimalInRange)[i])]]

\* C16: compile-selected compiles the tokens typed, in the order typed and
\* with duplicates kept, restricted to decimal numbers between 1 and the
\* number of available files, each mapped to the file of that number (up to
\* the first failing compile, as every batch); when no token is left the
\* compiler is not started, "No files were selected" is reported and the
\* main menu is shown again.
C16_SelectionFilter ==
    out.op = "compile_specific" =>
        /\ out.raised = "none"
        /\ pc = "MainMenu"
        /\ IF Len(ChosenFiles) = 0
           THEN out.cmds = <<>> /\ Printed("Error> No files were selected!")
           ELSE /\ ~Printed("Error> No files were selected!")
                /\ Attempted = IF Failing(out.input[2]) = {} THEN ChosenFiles
                               ELSE SubSeq(ChosenFiles, 1, FirstFailure(out.input[2]))

\* C17: whenever the process is at the main-menu prompt the options file
\* holds the six fields of the record in memory; a step from the main menu
\* (compile, clean, run, entering the submenu, an unknown choice, exit)
\* changes neither the record nor the file; the record changes only at
\* start-up, when it is built, and inside the settings submenu; and leaving
\* the submenu by "return" writes the file, changed or not.
C17_FileEqualsRecordAtMenu ==
    /\ [](pc = "MainMenu" => FileHolds(optsFile, opts))
    /\ [][/\ pc = "MainMenu" => (opts' = opts /\ optsFile' = optsFile)
          /\ opts' # opts => pc \in {"Start", "Settings"}
          /\ (pc = "Settings" /\ pc' = "MainMenu") =>
                /\ out'.wrote
                /\ opts' = opts
                /\ FileHolds(optsFile', opts)]_vars

\* Back at the main menu from the submenu with a record that differs from the
\* one loaded at start-up in three fields, after a clean.
C17_Witness ==
    /\ pc = "MainMenu"
    /\ out.op = "clear_build"
    /\ Len(Deletions) = 2
    /\ opts.class_path = "/w/p"
    /\ opts.main_class_path = "s.B"
    /\ ~opts.verbose
    /\ optsFile # create_compilation_options_file(SavedOptions)

\* "return" chosen in the submenu with nothing changed: the file is written.
C17_WitnessUnchanged ==
    /\ pc = "MainMenu"
    /\ out.op = "setup_compilation_options"
    /\ out.wrote
    /\ opts = SavedOptions

====
